---- MODULE Spec2Model ----
(***************************************************************************)
(* A model of src/traffic.py: the N x N grid traffic simulator.  The state *)
(* is the module's global state (in_transit, stopped, completed, sum_tt,   *)
(* car_id, seed_value) together with the locals of run_simulation and its  *)
(* position in the tick loop.  One action per step of run_simulation.      *)
(***************************************************************************)
EXTENDS Integers, Sequences, FiniteSets, TLC

\* ------------------------------------------------------------------------
\* Configuration (src/traffic.py:3-25).  The grid, the duration and the two
\* capacities are scaled down so that full buffers and full queues occur in
\* a short run; every other value is the one the source sets.
\* ------------------------------------------------------------------------
N == 3                       \* traffic.py:3 sets 4
TOTAL_TICKS == 45            \* traffic.py:4 sets 1000
LINK_IN_TRANSIT_CAP == 3     \* traffic.py:22 sets 50
QUEUE_CAP == 2               \* traffic.py:23 sets 10
MaxRuns == 2                 \* calls of run_simulation that are followed
ShortTicks == 3              \* a duration too short for any trip to complete

NORTH == "N"
SOUTH == "S"
EAST == "E"
WEST == "W"
CLOCKWISE == <<NORTH, EAST, SOUTH, WEST>>

STRAIGHT == "straight"
LEFT == "left"
RIGHT == "right"

CYCLE_NS_GREEN == 20
CYCLE_EW_GREEN == 20
CYCLE_TOTAL == CYCLE_NS_GREEN + CYCLE_EW_GREEN

FLOW_PER_TICK == 1
BASE_TRAVEL_T == 6

\* ------------------------------------------------------------------------
\* Pseudo-random generator (traffic.py:41-45).  seed_value is a 32-bit
\* value; it is kept as two 16-bit halves [hi, lo], seed = hi * 2^16 + lo,
\* so that 1664525 * seed + 1013904223 is computed modulo 2^32 exactly.
\* ------------------------------------------------------------------------
HALF == 65536                \* 2^16; 4294967296 = HALF * HALF
LCG_A_HI == 25               \* 1664525 = 25 * 65536 + 26125
LCG_A_LO == 26125
LCG_C_HI == 15470            \* 1013904223 = 15470 * 65536 + 62303
LCG_C_LO == 62303
INITIAL_SEED == 42

SeedOf(n) == [hi |-> n \div HALF, lo |-> n % HALF]

\* seed_value = (1664525 * seed_value + 1013904223) % 4294967296
NextSeed(s) ==
    LET lo_sum == LCG_A_LO * s.lo + LCG_C_LO
        hi_sum == LCG_A_HI * s.lo + LCG_A_LO * s.hi + LCG_C_HI + (lo_sum \div HALF)
    IN  [hi |-> hi_sum % HALF, lo |-> lo_sum % HALF]

\* rand(): advances the seed; the value returned is seed_value / 2^32, kept
\* here as its numerator (the new seed itself).
rand(s) == [seed |-> NextSeed(s), val |-> NextSeed(s)]

\* A probability p is kept as the least 32-bit numerator k with
\* k / 2^32 >= p, in halves, so that  rand() < p  <=>  seed < k.
RandLess(val, p) == val.hi < p.hi \/ (val.hi = p.hi /\ val.lo < p.lo)

\* TURN_PROBABILITIES = [0.25, 0.50, 0.25], in units of 2^-16 (exact).
TURN_PROBABILITIES == <<16384, 32768, 16384>>
\* ARRIVAL_RATE = 0.33: ceil(0.33 * 2^32) = 1417339208 = 21626 * 65536 + 57672
ARRIVAL_RATE == [hi |-> 21626, lo |-> 57672]

\* ------------------------------------------------------------------------
\* Topology (traffic.py:28-32, 48-76, 110-144).  A Node is <<i, j>>.
\* ------------------------------------------------------------------------
Node(i, j) == <<i, j>>

outgoing_for(node) ==
    LET i == node[1]
        j == node[2]
    IN  (IF i > 0     THEN << <<Node(i - 1, j), NORTH>> >> ELSE <<>>)
     \o (IF j < N - 1 THEN << <<Node(i, j + 1), EAST>> >>  ELSE <<>>)
     \o (IF i < N - 1 THEN << <<Node(i + 1, j), SOUTH>> >> ELSE <<>>)
     \o (IF j > 0     THEN << <<Node(i, j - 1), WEST>> >>  ELSE <<>>)

\* Variant: each neighbour is labelled with its position instead of the
\* direction of travel into node
incoming_for_byPosition(node) ==
    LET i == node[1]
        j == node[2]
    IN  (IF i < N - 1 THEN << <<Node(i + 1, j), SOUTH>> >> ELSE <<>>)
     \o (IF j > 0     THEN << <<Node(i, j - 1), WEST>> >>  ELSE <<>>)
     \o (IF i > 0     THEN << <<Node(i - 1, j), NORTH>> >> ELSE <<>>)
     \o (IF j < N - 1 THEN << <<Node(i, j + 1), EAST>> >>  ELSE <<>>)

incoming_for(node) ==
    LET i == node[1]
        j == node[2]
    IN  (IF i < N - 1 THEN << <<Node(i + 1, j), NORTH>> >> ELSE <<>>)
     \o (IF j > 0     THEN << <<Node(i, j - 1), EAST>> >>  ELSE <<>>)
     \o (IF i > 0     THEN << <<Node(i - 1, j), SOUTH>> >> ELSE <<>>)
     \o (IF j < N - 1 THEN << <<Node(i, j + 1), WEST>> >>  ELSE <<>>)

\* Variant: the test that the link points inward is missing
is_boundary_incoming_link_anyEdge(src, dst) ==
    LET si == src[1]
        sj == src[2]
    IN  si = 0 \/ si = N - 1 \/ sj = 0 \/ sj = N - 1

is_boundary_incoming_link(src, dst) ==
    LET si == src[1]
        sj == src[2]
        di == dst[1]
        dj == dst[2]
    IN  \/ (si = 0 /\ di = si + 1 /\ sj = dj)
        \/ (si = N - 1 /\ di = si - 1 /\ sj = dj)
        \/ (sj = 0 /\ dj = sj + 1 /\ si = di)
        \/ (sj = N - 1 /\ dj = sj - 1 /\ si = di)

\* nodes: row-major list of all intersections (traffic.py:128-131)
nodes == [k \in 1..(N * N) |-> Node((k - 1) \div N, (k - 1) % N)]

\* links: for u in nodes, for v in outgoing_for(u) (traffic.py:133-144)
RECURSIVE LinksFrom(_)
LinksFrom(k) ==
    IF k > Len(nodes) THEN <<>>
    ELSE LET u == nodes[k]
             out == outgoing_for(u)
         IN  [m \in 1..Len(out) |-> <<u, out[m][1]>>] \o LinksFrom(k + 1)

links == LinksFrom(1)
LinkSet == {links[k] : k \in 1..Len(links)}

\* ------------------------------------------------------------------------
\* Signal controller and turn choice (traffic.py:78-108)
\* ------------------------------------------------------------------------
\* Variant: the N/S phase lasts one tick too long (<= for <)
signal_phase_inclusive(t) ==
    IF t % CYCLE_TOTAL <= CYCLE_NS_GREEN THEN <<NORTH, SOUTH>> ELSE <<EAST, WEST>>

signal_phase(t) ==
    IF t % CYCLE_TOTAL < CYCLE_NS_GREEN THEN <<NORTH, SOUTH>> ELSE <<EAST, WEST>>

InList(x, list) == \E k \in 1..Len(list) : list[k] = x

IndexOf(list, x) == (CHOOSE k \in 1..Len(list) : list[k] = x) - 1

\* The turn drawn for a value of rand() (traffic.py:81-90)
TurnFor(rand_val) ==
    LET left_prob == TURN_PROBABILITIES[1]
        straight_prob == TURN_PROBABILITIES[2]
    IN  IF rand_val.hi < left_prob THEN LEFT
        ELSE IF rand_val.hi < left_prob + straight_prob THEN STRAIGHT
        ELSE RIGHT

\* Variant: left and right are exchanged
TurnedDir_swapped(approach_direction, turn) ==
    LET idx == IndexOf(CLOCKWISE, approach_direction)
        idx2 == IF turn = LEFT THEN (idx + 1) % 4
                ELSE IF turn = RIGHT THEN (idx - 1) % 4
                ELSE idx
    IN  CLOCKWISE[idx2 + 1]

\* The direction a turn leads to (traffic.py:91-97)
TurnedDir(approach_direction, turn) ==
    LET idx == IndexOf(CLOCKWISE, approach_direction)
        idx2 == IF turn = LEFT THEN (idx - 1) % 4
                ELSE IF turn = RIGHT THEN (idx + 1) % 4
                ELSE idx
    IN  CLOCKWISE[idx2 + 1]

turn_direction(s, approach_direction) ==
    LET r == rand(s)
    IN  [seed |-> r.seed, new_dir |-> TurnedDir(approach_direction, TurnFor(r.val))]

add_travel_time == BASE_TRAVEL_T

\* ------------------------------------------------------------------------
\* Cars (traffic.py:34-38).  uid stands for the identity of the Python
\* object: the source never reads it, two Car objects are distinct even
\* when their id and t_enter agree.
\* ------------------------------------------------------------------------
Car(c_id, t_enter, uid) == [id |-> c_id, t_enter |-> t_enter, uid |-> uid]

LinkKey(src, dst) == <<src, dst>>

\* ------------------------------------------------------------------------
\* Link operations (traffic.py:151-179).  They take and return the two
\* dictionaries in_transit and stopped.
\* ------------------------------------------------------------------------
\* Variant: the capacity check admits one car too many (<= for <)
enqueue_departure_offByOne(it, src, dst, car) ==
    LET buf == it[LinkKey(src, dst)]
        success == Len(buf) <= LINK_IN_TRANSIT_CAP
    IN  [success |-> success,
         in_transit |-> IF success
                        THEN [it EXCEPT ![LinkKey(src, dst)] =
                                 Append(buf, [car |-> car, remaining |-> BASE_TRAVEL_T])]
                        ELSE it]

\* Variant: a full link makes room by losing its oldest entry
enqueue_departure_displacing(it, src, dst, car) ==
    LET buf == it[LinkKey(src, dst)]
        success == Len(buf) < LINK_IN_TRANSIT_CAP
        kept == IF success THEN buf ELSE Tail(buf)
    IN  [success |-> TRUE,
         in_transit |-> [it EXCEPT ![LinkKey(src, dst)] =
                            Append(kept, [car |-> car, remaining |-> BASE_TRAVEL_T])]]

\* Variant: the car is put on the link of the opposite direction
enqueue_departure_reversed(it, src, dst, car) ==
    LET buf == it[LinkKey(dst, src)]
    IN  IF Len(buf) < LINK_IN_TRANSIT_CAP
        THEN [success |-> TRUE,
              in_transit |-> [it EXCEPT ![LinkKey(dst, src)] =
                                 Append(buf, [car |-> car, remaining |-> add_travel_time])]]
        ELSE [success |-> FALSE, in_transit |-> it]

enqueue_departure(it, src, dst, car) ==
    LET buf == it[LinkKey(src, dst)]
        success == Len(buf) < LINK_IN_TRANSIT_CAP
    IN  [success |-> success,
         in_transit |-> IF success
                        THEN [it EXCEPT ![LinkKey(src, dst)] =
                                 Append(buf, [car |-> car, remaining |-> add_travel_time])]
                        ELSE it]

\* Variant: two ticks of travel are taken off per tick
Decremented_byTwo(buf) ==
    [k \in 1..Len(buf) |-> [car |-> buf[k].car, remaining |-> buf[k].remaining - 2]]

\* for k in range(len(buf)): buf[k] = (car, remaining - 1)
Decremented(buf) ==
    [k \in 1..Len(buf) |-> [car |-> buf[k].car, remaining |-> buf[k].remaining - 1]]

\* q.append(car)
QueueAppend(q, car) == Append(q, car)

\* Variant: a car that finds the queue full is not kept
KeepBlocked_dropped(tmp, car) == tmp

\* tmp.insert(0, (car, 0))
KeepBlocked(tmp, car) == <<[car |-> car, remaining |-> 0]>> \o tmp

\* Variant: a car with one tick left already counts as arrived
RECURSIVE DrainLoop_early(_, _, _, _)
DrainLoop_early(buf, q, tmp, moved) ==
    IF Len(buf) = 0 THEN [q |-> q, tmp |-> tmp, moved |-> moved]
    ELSE LET e == Head(buf)
         IN  IF e.remaining <= 1
             THEN IF Len(q) < QUEUE_CAP
                  THEN DrainLoop_early(Tail(buf), QueueAppend(q, e.car), tmp, moved + 1)
                  ELSE DrainLoop_early(Tail(buf), q, KeepBlocked(tmp, e.car), moved)
             ELSE DrainLoop_early(Tail(buf), q, Append(tmp, e), moved)

\* while len(buf) > 0: ... (traffic.py:168-177)
RECURSIVE DrainLoop(_, _, _, _)
DrainLoop(buf, q, tmp, moved) ==
    IF Len(buf) = 0 THEN [q |-> q, tmp |-> tmp, moved |-> moved]
    ELSE LET e == Head(buf)
         IN  IF e.remaining <= 0
             THEN IF Len(q) < QUEUE_CAP
                  THEN DrainLoop(Tail(buf), QueueAppend(q, e.car), tmp, moved + 1)
                  ELSE DrainLoop(Tail(buf), q, KeepBlocked(tmp, e.car), moved)
             ELSE DrainLoop(Tail(buf), q, Append(tmp, e), moved)

pop_to_queue_if_arrived(it, st, src, dst) ==
    LET key == LinkKey(src, dst)
        r == DrainLoop(Decremented(it[key]), st[key], <<>>, 0)
    IN  [in_transit |-> [it EXCEPT ![key] = r.tmp],
         stopped |-> [st EXCEPT ![key] = r.q],
         moved |-> r.moved]

\* ------------------------------------------------------------------------
\* Intersection operations (traffic.py:182-227).  The context c holds the
\* globals the service reads and writes, the local counter served, and log:
\* one entry per service attempt, in the order the attempts are made.
\* ------------------------------------------------------------------------
\* Variant: the entry tick is not subtracted
record_completion_noEntry(c, car, t_now) ==
    [c EXCEPT !.completed = @ + 1, !.sum_tt = @ + t_now]

record_completion(c, car, t_now) ==
    [c EXCEPT !.completed = @ + 1, !.sum_tt = @ + (t_now - car.t_enter)]

\* The neighbour in direction out_dir, or car_exits (traffic.py:204-213)
NextNode(node, out_dir) ==
    LET i == node[1]
        j == node[2]
    IN  IF out_dir = NORTH /\ i > 0 THEN [car_exits |-> FALSE, next_node |-> Node(i - 1, j)]
        ELSE IF out_dir = SOUTH /\ i < N - 1 THEN [car_exits |-> FALSE, next_node |-> Node(i + 1, j)]
        ELSE IF out_dir = WEST /\ j > 0 THEN [car_exits |-> FALSE, next_node |-> Node(i, j - 1)]
        ELSE IF out_dir = EAST /\ j < N - 1 THEN [car_exits |-> FALSE, next_node |-> Node(i, j + 1)]
        ELSE [car_exits |-> TRUE, next_node |-> node]

\* Variant: q.pop() for q.pop(0), the last car leaves instead of the head
PopLast(q) == SubSeq(q, 1, Len(q) - 1)

\* q.pop(0)
PopHead(q) == Tail(q)

Event(key, kind, car, out_dir, next_node) ==
    [link |-> key, kind |-> kind, car |-> car, out_dir |-> out_dir, dest |-> next_node]

\* The while loop of one approach (traffic.py:194-226)
RECURSIVE ServeQueue(_, _, _, _, _, _)
ServeQueue(c, t, node, u, approach_dir, moves_attempted) ==
    LET key == LinkKey(u, node)
        q == c.stopped[key]
    IN  IF ~(moves_attempted < FLOW_PER_TICK /\ Len(q) > 0) THEN c
        ELSE
          LET car == q[1]
              td == turn_direction(c.seed_value, approach_dir)
              out_dir == td.new_dir
              nn == NextNode(node, out_dir)
              c1 == [c EXCEPT !.seed_value = td.seed]
          IN  IF nn.car_exits
              THEN ServeQueue(
                     [record_completion(c1, car, t) EXCEPT
                        !.stopped[key] = PopHead(q),
                        !.served = @ + 1,
                        !.log = Append(@, Event(key, "exit", car, out_dir, node))],
                     t, node, u, approach_dir, moves_attempted + 1)
              ELSE
                LET e == enqueue_departure(c1.in_transit, node, nn.next_node, car)
                IN  IF e.success
                    THEN ServeQueue(
                           [c1 EXCEPT
                              !.in_transit = e.in_transit,
                              !.stopped[key] = PopHead(q),
                              !.served = @ + 1,
                              !.log = Append(@, Event(key, "move", car, out_dir, nn.next_node))],
                           t, node, u, approach_dir, moves_attempted + 1)
                    \* stop_processing = True: this approach is done for the tick
                    ELSE [c1 EXCEPT
                            !.log = Append(@, Event(key, "blocked", car, out_dir, nn.next_node))]

\* Variant: a blocked approach ends the service of the whole intersection
RECURSIVE ServeApproaches_stopAll(_, _, _, _)
ServeApproaches_stopAll(c, t, node, k) ==
    LET inc == incoming_for(node)
        green_dirs == signal_phase(t)
    IN  IF k > Len(inc) THEN c
        ELSE IF Len(c.log) > 0 /\ c.log[Len(c.log)].kind = "blocked" THEN c
        ELSE IF InList(inc[k][2], green_dirs)
             THEN ServeApproaches_stopAll(
                     ServeQueue(c, t, node, inc[k][1], inc[k][2], 0), t, node, k + 1)
             ELSE ServeApproaches_stopAll(c, t, node, k + 1)

\* Variant: every approach is served, whatever the signal shows
RECURSIVE ServeApproaches_ignoringSignal(_, _, _, _)
ServeApproaches_ignoringSignal(c, t, node, k) ==
    LET inc == incoming_for(node)
    IN  IF k > Len(inc) THEN c
        ELSE ServeApproaches_ignoringSignal(
                ServeQueue(c, t, node, inc[k][1], inc[k][2], 0), t, node, k + 1)

\* for u, approach_dir in incoming_for(node): if approach_dir in green_dirs
RECURSIVE ServeApproaches(_, _, _, _)
ServeApproaches(c, t, node, k) ==
    LET inc == incoming_for(node)
        green_dirs == signal_phase(t)
    IN  IF k > Len(inc) THEN c
        ELSE IF InList(inc[k][2], green_dirs)
             THEN ServeApproaches(ServeQueue(c, t, node, inc[k][1], inc[k][2], 0), t, node, k + 1)
             ELSE ServeApproaches(c, t, node, k + 1)

serve_intersection(c, t, node) ==
    ServeApproaches([c EXCEPT !.served = 0, !.log = <<>>], t, node, 1)

\* ------------------------------------------------------------------------
\* State
\* ------------------------------------------------------------------------
VARIABLES
    in_transit,     \* link -> sequence of [car, remaining]   (traffic.py:134)
    stopped,        \* link -> sequence of cars                (traffic.py:135)
    completed,      \* traffic.py:146
    sum_tt,         \* traffic.py:147
    car_id,         \* traffic.py:148
    seed_value,     \* traffic.py:41
    queue_samples,  \* local of run_simulation (traffic.py:236)
    sum_queue,      \* local of run_simulation (traffic.py:237)
    t,              \* the tick of the loop at traffic.py:239
    pc,             \* position in run_simulation
    idx,            \* position in the inner loop over links or nodes
    run,            \* number of calls of run_simulation so far
    results,        \* what each finished call reported
    total_ticks,    \* the module global TOTAL_TICKS (traffic.py:4)
    \* history, read by no operation of the program:
    next_uid,       \* Car objects constructed since the module was loaded
    dropped,        \* arrivals of this run that enqueue_departure refused
    buf_in,         \* link -> uids in the order they were put on the link
    q_in,           \* link -> uids in the order they entered the stop-line queue
    q_out,          \* link -> uids in the order they left the stop-line queue
    serve_log,      \* the attempts of the latest serve_intersection call
    tick_log,       \* the steps taken so far in the current tick, in order
    fresh,          \* the current call started with every buffer and queue empty
    put_at          \* uid -> [run, t]: when the car was last put on a link

vars == <<in_transit, stopped, completed, sum_tt, car_id, seed_value,
          queue_samples, sum_queue, t, pc, idx, run, results, total_ticks,
          next_uid, dropped, buf_in, q_in, q_out, serve_log, tick_log, fresh, put_at>>

history == <<next_uid, dropped, buf_in, q_in, q_out, serve_log, fresh, put_at>>

\* The durations a caller may have configured: none, a short one, the
\* model's full one
TickChoices == {0, ShortTicks, TOTAL_TICKS}

\* The state after the module is loaded (traffic.py:41, 128-148)
Init ==
    /\ in_transit = [l \in LinkSet |-> <<>>]
    /\ stopped = [l \in LinkSet |-> <<>>]
    /\ completed = 0
    /\ sum_tt = 0
    /\ car_id = 0
    /\ seed_value = SeedOf(INITIAL_SEED)
    /\ queue_samples = 0
    /\ sum_queue = 0
    /\ t = 0
    /\ pc = "loaded"
    /\ idx = 1
    /\ run = 0
    /\ results = <<>>
    /\ total_ticks \in TickChoices
    /\ next_uid = 0
    /\ dropped = 0
    /\ buf_in = [l \in LinkSet |-> <<>>]
    /\ q_in = [l \in LinkSet |-> <<>>]
    /\ q_out = [l \in LinkSet |-> <<>>]
    /\ serve_log = <<>>
    /\ tick_log = <<>>
    /\ fresh = TRUE
    /\ put_at = [u \in {} |-> [run |-> 0, t |-> 0]]

\* ------------------------------------------------------------------------
\* History helpers
\* ------------------------------------------------------------------------
Uids(q) == [k \in 1..Len(q) |-> q[k].uid]
BufUids(buf) == [k \in 1..Len(buf) |-> buf[k].car.uid]
UidSet(seq) == {seq[k] : k \in 1..Len(seq)}

\* The part of new after the first Len(old) entries
Added(old, new) == SubSeq(new, Len(old) + 1, Len(new))

\* The entries of old that are no longer in new, in the order of old
Removed(old, new) == SelectSeq(old, LAMBDA x : x \notin UidSet(new))

\* The cars of `uids` are put on a link now
PutNow(pa, uids) ==
    [u \in DOMAIN pa \cup UidSet(uids) |->
        IF u \in UidSet(uids) THEN [run |-> run, t |-> t] ELSE pa[u]]

\* ------------------------------------------------------------------------
\* run_simulation (traffic.py:230-260), one action per step
\* ------------------------------------------------------------------------
RECURSIVE SumLen(_, _)
SumLen(f, k) == IF k > Len(links) THEN 0 ELSE Len(f[links[k]]) + SumLen(f, k + 1)

\* total_queued (traffic.py:250-254)
TotalQueued == SumLen(stopped, 1) + SumLen(in_transit, 1)

\* The call: the counters are reset (traffic.py:232-237)
RunSimulation ==
    /\ pc \in {"loaded", "done"}
    /\ run < MaxRuns
    /\ car_id' = 0
    /\ completed' = 0
    /\ sum_tt' = 0
    /\ queue_samples' = 0
    /\ sum_queue' = 0
    /\ t' = 0
    /\ idx' = 1
    /\ pc' = IF total_ticks > 0 THEN "advance" ELSE "report"
    /\ run' = run + 1
    /\ dropped' = 0
    /\ tick_log' = <<>>
    /\ fresh' = (TotalQueued = 0)
    /\ UNCHANGED <<in_transit, stopped, seed_value, results, total_ticks,
                   next_uid, buf_in, q_in, q_out, serve_log, put_at>>

\* Variant: the loop over the links ends one link early
AdvanceLink_shortLoop ==
    /\ pc = "advance"
    /\ LET l == links[idx]
           r == pop_to_queue_if_arrived(in_transit, stopped, l[1], l[2])
       IN  /\ in_transit' = r.in_transit
           /\ stopped' = r.stopped
           /\ q_in' = [q_in EXCEPT ![l] = @ \o Added(Uids(stopped[l]), Uids(r.stopped[l]))]
    /\ IF idx < Len(links) - 1
       THEN idx' = idx + 1 /\ pc' = pc
       ELSE idx' = 1 /\ pc' = "serve"
    /\ tick_log' = IF idx = 1 THEN <<"advance">> ELSE Append(tick_log, "advance")
    /\ UNCHANGED <<completed, sum_tt, car_id, seed_value, queue_samples, sum_queue,
                   t, run, results, total_ticks, next_uid, dropped, buf_in, q_out,
                   serve_log, fresh, put_at>>

\* for (src, dst) in links: pop_to_queue_if_arrived(src, dst)   (traffic.py:240-241)
AdvanceLink ==
    /\ pc = "advance"
    /\ LET l == links[idx]
           r == pop_to_queue_if_arrived(in_transit, stopped, l[1], l[2])
       IN  /\ in_transit' = r.in_transit
           /\ stopped' = r.stopped
           /\ q_in' = [q_in EXCEPT ![l] = @ \o Added(Uids(stopped[l]), Uids(r.stopped[l]))]
    /\ IF idx < Len(links)
       THEN idx' = idx + 1 /\ pc' = pc
       ELSE idx' = 1 /\ pc' = "serve"
    /\ tick_log' = IF idx = 1 THEN <<"advance">> ELSE Append(tick_log, "advance")
    /\ UNCHANGED <<completed, sum_tt, car_id, seed_value, queue_samples, sum_queue,
                   t, run, results, total_ticks, next_uid, dropped, buf_in, q_out,
                   serve_log, fresh, put_at>>

\* for node in nodes: serve_intersection(t, node)   (traffic.py:242-243)
ServeIntersection ==
    /\ pc = "serve"
    /\ LET c == serve_intersection(
                   [in_transit |-> in_transit, stopped |-> stopped,
                    seed_value |-> seed_value, completed |-> completed,
                    sum_tt |-> sum_tt, served |-> 0, log |-> <<>>],
                   t, nodes[idx])
       IN  /\ in_transit' = c.in_transit
           /\ stopped' = c.stopped
           /\ seed_value' = c.seed_value
           /\ completed' = c.completed
           /\ sum_tt' = c.sum_tt
           /\ serve_log' = c.log
           /\ q_out' = [l \in LinkSet |->
                          q_out[l] \o Removed(Uids(stopped[l]), Uids(c.stopped[l]))]
           /\ buf_in' = [l \in LinkSet |->
                          buf_in[l] \o Added(BufUids(in_transit[l]), BufUids(c.in_transit[l]))]
           /\ put_at' = PutNow(put_at,
                          Uids(SelectSeq([k \in 1..Len(c.log) |-> c.log[k].car],
                                         LAMBDA x : \E l \in LinkSet :
                                            x.uid \in UidSet(BufUids(c.in_transit[l])))))
    /\ IF idx < Len(nodes)
       THEN idx' = idx + 1 /\ pc' = pc
       ELSE idx' = 1 /\ pc' = "arrive"
    /\ tick_log' = Append(tick_log, "serve")
    /\ UNCHANGED <<car_id, queue_samples, sum_queue, t, run, results, total_ticks,
                   next_uid, dropped, q_in, fresh>>

\* for (src, dst) in links: if is_boundary_incoming_link ... (traffic.py:244-249)
Arrival ==
    /\ pc = "arrive"
    /\ LET l == links[idx]
       IN  IF is_boundary_incoming_link(l[1], l[2])
           THEN LET r == rand(seed_value)
                IN  /\ seed_value' = r.seed
                    /\ IF RandLess(r.val, ARRIVAL_RATE)
                       THEN LET car == Car(car_id, t, next_uid)
                                e == enqueue_departure(in_transit, l[1], l[2], car)
                            IN  /\ car_id' = car_id + 1
                                /\ next_uid' = next_uid + 1
                                /\ in_transit' = e.in_transit
                                /\ dropped' = IF e.success THEN dropped ELSE dropped + 1
                                /\ buf_in' = [buf_in EXCEPT ![l] =
                                     @ \o Added(BufUids(in_transit[l]), BufUids(e.in_transit[l]))]
                                /\ put_at' = PutNow(put_at,
                                     Added(BufUids(in_transit[l]), BufUids(e.in_transit[l])))
                       ELSE UNCHANGED <<car_id, next_uid, in_transit, dropped, buf_in, put_at>>
           ELSE UNCHANGED <<seed_value, car_id, next_uid, in_transit, dropped, buf_in, put_at>>
    /\ IF idx < Len(links)
       THEN idx' = idx + 1 /\ pc' = pc
       ELSE idx' = 1 /\ pc' = "sample"
    /\ tick_log' = Append(tick_log, "arrive")
    /\ UNCHANGED <<stopped, completed, sum_tt, queue_samples, sum_queue,
                   t, run, results, total_ticks, q_in, q_out, serve_log, fresh>>

\* The sample that ends a tick (traffic.py:250-256) and the loop's next t
Sample ==
    /\ pc = "sample"
    /\ sum_queue' = sum_queue + TotalQueued
    /\ queue_samples' = queue_samples + 1
    /\ t' = t + 1
    /\ pc' = IF t + 1 < total_ticks THEN "advance" ELSE "report"
    /\ tick_log' = Append(tick_log, "sample")
    /\ UNCHANGED <<in_transit, stopped, completed, sum_tt, car_id, seed_value,
                   idx, run, results, total_ticks, history>>

\* a / b of Python: the exact quotient, or ZeroDivisionError when b = 0
Quotient(a, b) == [fault |-> b = 0, num |-> a, den |-> b]

\* The literal 0 of the two conditional expressions (traffic.py:259-260)
Zero == [fault |-> FALSE, num |-> 0, den |-> 1]

\* After the loop (traffic.py:258-271): the three metrics are computed in
\* this order and the report is printed; an exception ends the call.
Report ==
    /\ pc = "report"
    /\ LET throughput == Quotient(completed, total_ticks)
           mean_tt == IF completed > 0 THEN Quotient(sum_tt, completed) ELSE Zero
           mean_queued == IF queue_samples > 0 THEN Quotient(sum_queue, queue_samples)
                          ELSE Zero
       IN  IF throughput.fault \/ mean_tt.fault \/ mean_queued.fault
           THEN pc' = "failed" /\ results' = results
           ELSE /\ results' = Append(results,
                      [completed |-> completed, sum_tt |-> sum_tt,
                       sum_queue |-> sum_queue, queue_samples |-> queue_samples,
                       throughput |-> throughput, mean_tt |-> mean_tt,
                       mean_queued |-> mean_queued])
                /\ pc' = "done"
    /\ UNCHANGED <<in_transit, stopped, completed, sum_tt, car_id, seed_value,
                   queue_samples, sum_queue, t, idx, run, total_ticks, tick_log, history>>

Next ==
    \/ RunSimulation
    \/ AdvanceLink
    \/ ServeIntersection
    \/ Arrival
    \/ Sample
    \/ Report

Spec == Init /\ [][Next]_vars

\* ------------------------------------------------------------------------
\* Vocabulary of the properties
\* ------------------------------------------------------------------------
Dirs == {NORTH, EAST, SOUTH, WEST}
NodeSet == {nodes[k] : k \in 1..Len(nodes)}
InGrid(node) == node[1] \in 0..(N - 1) /\ node[2] \in 0..(N - 1)
ListSet(list) == {list[k] : k \in 1..Len(list)}

\* A tick has just been completed (its sample is taken)
AfterTick == run >= 1 /\ ((pc = "advance" /\ idx = 1 /\ t > 0) \/ pc \in {"report", "done"})

\* serve_log describes the current contents: the latest step was a service
JustServed == (pc = "serve" /\ idx > 1) \/ pc = "arrive"

\* The cars that are somewhere in the system
SystemCars ==
    UNION {{in_transit[l][k].car : k \in 1..Len(in_transit[l])} : l \in LinkSet}
      \cup UNION {ListSet(stopped[l]) : l \in LinkSet}
SystemIds == {c.id : c \in SystemCars}
SystemUids == {c.uid : c \in SystemCars}

\* Position of x in a list without repetitions (0 when absent)
PosIn(list, x) == IF x \in ListSet(list) THEN CHOOSE k \in 1..Len(list) : list[k] = x ELSE 0

\* C1: Conservation.  After every tick of a run, the car-id counter (cars
\* spawned) equals cars in transit + cars queued + completed + arrivals
\* dropped on a full buffer.
C1_Conservation ==
    AfterTick => car_id = SumLen(in_transit, 1) + SumLen(stopped, 1) + completed + dropped

\* The same equation during the first call of run_simulation after the
\* module is loaded, at every step of it.
C1_ConservationFirstCall ==
    run = 1 => car_id = SumLen(in_transit, 1) + SumLen(stopped, 1) + completed + dropped

\* C2: Capacity.  No in-transit buffer ever holds more than
\* LINK_IN_TRANSIT_CAP entries and no stop-line queue more than QUEUE_CAP
\* cars; a full buffer is left as it is by the steps that insert into it
\* (service, arrival) and a full queue by link advancement.
CapacityInv ==
    \A l \in LinkSet : /\ Len(in_transit[l]) <= LINK_IN_TRANSIT_CAP
                       /\ Len(stopped[l]) <= QUEUE_CAP

FullStaysAsIs ==
    \A l \in LinkSet :
        /\ (pc \in {"serve", "arrive"} /\ Len(in_transit[l]) = LINK_IN_TRANSIT_CAP)
              => in_transit'[l] = in_transit[l]
        /\ (pc = "advance" /\ Len(stopped[l]) = QUEUE_CAP)
              => stopped'[l] = stopped[l]

C2_Capacity == []CapacityInv /\ [][FullStaysAsIs]_vars

\* An arrival has been refused by a full buffer, a car is held back by a
\* full queue, and a service attempt has been refused by a full buffer
C2_Witness ==
    /\ dropped > 0
    /\ \E l \in LinkSet : /\ Len(stopped[l]) = QUEUE_CAP
                          /\ \E k \in 1..Len(in_transit[l]) : in_transit[l][k].remaining = 0
    /\ JustServed
    /\ \E k \in 1..Len(serve_log) :
          /\ serve_log[k].kind = "blocked"
          /\ Len(in_transit[LinkKey(serve_log[k].link[2], serve_log[k].dest)])
                = LINK_IN_TRANSIT_CAP

\* C3: Single ownership.  Each car occurs at most once across all buffers
\* and queues, and no two distinct cars in the system share an id.
C3_SingleOwnership ==
    /\ Cardinality(SystemUids) = TotalQueued
    /\ Cardinality(SystemIds) = TotalQueued

\* The first half alone: no Car object is in two places or twice in one.
C3_ObjectsOwnedOnce == Cardinality(SystemUids) = TotalQueued

\* C4: Determinism.  Two calls of run_simulation with the same
\* configuration and seed report the same completed count, travel-time sum
\* and occupancy sum.
C4_Determinism ==
    \A a, b \in 1..Len(results) :
        /\ results[a].completed = results[b].completed
        /\ results[a].sum_tt = results[b].sum_tt
        /\ results[a].sum_queue = results[b].sum_queue

\* C5: Link-order priority.  If car A was put on a link before car B, A
\* enters the link's stop-line queue no later than B: no car that is still
\* in the in-transit buffer was put on the link before a car that has
\* already entered the queue.
C5_LinkOrderPriority ==
    \A l \in LinkSet :
        \A a \in ListSet(BufUids(in_transit[l])) : \A b \in ListSet(q_in[l]) :
            PosIn(buf_in[l], b) < PosIn(buf_in[l], a)

\* C6: FIFO at the stop line.  The cars that left a queue are exactly the
\* first that entered it, in their order of entry, and the cars still
\* queued follow in their order of entry: only heads are removed.
C6_FifoStopLine ==
    \A l \in LinkSet : q_in[l] = q_out[l] \o Uids(stopped[l])

\* A service has just removed the head of a queue that held a second car
C6_Witness ==
    /\ JustServed
    /\ \E k \in 1..Len(serve_log) :
          /\ serve_log[k].kind \in {"exit", "move"}
          /\ Len(stopped[serve_log[k].link]) >= 1
          /\ Len(q_out[serve_log[k].link]) >= 2

\* C7: Backpressure at an intersection.  When the head car of a green
\* approach draws a direction whose link has a full in-transit buffer, the
\* car is neither moved nor dropped, the approach's queue is unchanged with
\* the car at its head, no further car of the approach is served in the
\* tick, and every other green approach of the intersection that has a car
\* waiting is still attended to in the same call.
BlockedAt(log, k) == log[k].kind = "blocked"

BackpressureStep ==
    pc = "serve" =>
      LET node == nodes[idx]
          inc == incoming_for(node)
          log == serve_log'
      IN  \A k \in 1..Len(log) :
            BlockedAt(log, k) =>
              LET key == log[k].link
                  out == LinkKey(node, log[k].dest)
              IN  /\ Len(in_transit[out]) + Cardinality({m \in 1..(k - 1) :
                        log[m].kind = "move" /\ log[m].dest = log[k].dest})
                        = LINK_IN_TRANSIT_CAP
                  /\ stopped'[key] = stopped[key]
                  /\ Head(stopped'[key]) = log[k].car
                  /\ \A l \in LinkSet : log[k].car.uid \notin ListSet(BufUids(in_transit'[l]))
                  /\ completed' - completed =
                        Cardinality({m \in 1..Len(log) : log[m].kind = "exit"})
                  /\ \A m \in 1..Len(log) : m # k => log[m].link # key
                  /\ \A m \in 1..Len(inc) :
                        LET other == LinkKey(inc[m][1], node)
                        IN  (/\ other # key
                             /\ InList(inc[m][2], signal_phase(t))
                             /\ Len(stopped[other]) > 0)
                            => \E j \in 1..Len(log) :
                                 /\ log[j].link = other
                                 /\ log[j].car = Head(stopped[other])
                                 /\ log[j].kind # "blocked"
                                      => stopped'[other] = Tail(stopped[other])

C7_Backpressure == [][BackpressureStep]_vars

\* An approach was blocked by a full link and an approach that comes after
\* it at the same intersection was served in the same call
C7_Witness ==
    /\ JustServed
    /\ \E k, j \in 1..Len(serve_log) :
          /\ k < j
          /\ serve_log[k].kind = "blocked"
          /\ serve_log[j].kind \in {"exit", "move"}
          /\ Head(stopped[serve_log[k].link]) = serve_log[k].car

\* C8: Link advancement loses and duplicates no car.  After the link is
\* advanced its buffer and queue together hold the cars they held before;
\* the queue keeps its cars and gains only cars whose time has run out;
\* every car left in the buffer has its remaining time lowered by 1, or is
\* held at 0 because its time has run out and the queue is full; and the
\* buffer is the held cars (remaining = 0) followed by the cars still
\* travelling (remaining > 0) in their original relative order.
Travelling(buf) == SelectSeq(buf, LAMBDA e : e.remaining > 0)

AdvanceStep ==
    pc = "advance" =>
      LET l == links[idx]
          b == in_transit[l]
          q == stopped[l]
          b2 == in_transit'[l]
          q2 == stopped'[l]
          held == SelectSeq(b2, LAMBDA e : e.remaining = 0)
          gone == Added(q, q2)
      IN  /\ Len(b2) + Len(q2) = Len(b) + Len(q)
          /\ ListSet(BufUids(b2)) \cup ListSet(Uids(q2))
                = ListSet(BufUids(b)) \cup ListSet(Uids(q))
          /\ SubSeq(q2, 1, Len(q)) = q
          /\ \A c \in ListSet(gone) :
                \E k \in 1..Len(b) : b[k].car = c /\ b[k].remaining - 1 <= 0
          /\ \A k2 \in 1..Len(b2) :
                \E k \in 1..Len(b) :
                   /\ b[k].car = b2[k2].car
                   /\ \/ b[k].remaining - 1 > 0 /\ b2[k2].remaining = b[k].remaining - 1
                      \/ /\ b[k].remaining - 1 <= 0
                         /\ b2[k2].remaining = 0
                         /\ Len(q2) = QUEUE_CAP
          /\ b2 = held \o Travelling(Decremented(b))
          /\ \A l2 \in LinkSet \ {l} :
                in_transit'[l2] = in_transit[l2] /\ stopped'[l2] = stopped[l2]

C8_AdvanceKeepsCars == [][AdvanceStep]_vars

\* The link just advanced holds two held cars in front of a travelling one,
\* behind a full queue
C8_Witness ==
    /\ pc = "advance" /\ idx > 1
    /\ LET l == links[idx - 1]
           b == in_transit[l]
       IN  /\ Len(stopped[l]) = QUEUE_CAP
           /\ Len(b) >= 3
           /\ b[1].remaining = 0 /\ b[2].remaining = 0
           /\ b[Len(b)].remaining > 0

\* C9: Signal correctness.  At every tick t the green directions are
\* exactly {N, S} when t lies in the first CYCLE_NS_GREEN ticks of its cycle
\* and exactly {E, W} otherwise; with the 20/20 cycle that is {N, S} for
\* t mod 40 in [0, 20) and {E, W} for t mod 40 in [20, 40); the two axes
\* are never green together and one of them always is.
C9_SignalCorrectness ==
    LET green == ListSet(signal_phase(t))
        inNS == \E c \in 0..t : c * CYCLE_TOTAL <= t /\ t < c * CYCLE_TOTAL + CYCLE_NS_GREEN
    IN  /\ inNS => green = {NORTH, SOUTH}
        /\ ~inNS => green = {EAST, WEST}
        /\ (CYCLE_NS_GREEN = 20 /\ CYCLE_EW_GREEN = 20) =>
              /\ (t % 40) \in 0..19 => green = {"N", "S"}
              /\ (t % 40) \in 20..39 => green = {"E", "W"}
        /\ (green \cap {NORTH, SOUTH} = {}) # (green \cap {EAST, WEST} = {})

\* Service runs in the first tick of the second cycle, after a full N/S
\* phase and a full E/W phase
C9_Witness == pc = "serve" /\ t = CYCLE_TOTAL /\ run = 1

\* C10: Topology inverse.  (v, d) is in outgoing_for(u) exactly when (u, d)
\* is in incoming_for(v), for all intersections u, v and directions d, and
\* every neighbour either function returns lies inside the grid; so every
\* link that carries a car leaves its source and approaches its destination
\* in one and the same direction.
C10_TopologyInverse ==
    /\ \A u \in NodeSet : \A v \in NodeSet : \A d \in Dirs :
          InList(<<v, d>>, outgoing_for(u)) <=> InList(<<u, d>>, incoming_for(v))
    /\ \A u \in NodeSet :
          /\ \A k \in 1..Len(outgoing_for(u)) : InGrid(outgoing_for(u)[k][1])
          /\ \A k \in 1..Len(incoming_for(u)) : InGrid(incoming_for(u)[k][1])
    /\ \A l \in LinkSet :
          Len(in_transit[l]) + Len(stopped[l]) > 0 =>
             \E d \in Dirs : /\ InList(<<l[2], d>>, outgoing_for(l[1]))
                             /\ InList(<<l[1], d>>, incoming_for(l[2]))

\* A car served on an approach given by incoming_for has moved onto a link
\* given by outgoing_for
C10_Witness ==
    /\ JustServed
    /\ \E k \in 1..Len(serve_log) :
          LET e == serve_log[k]
          IN  /\ e.kind = "move"
              /\ \E d \in Dirs : InList(<<e.link[1], d>>, incoming_for(e.link[2]))
              /\ InList(<<e.dest, e.out_dir>>, outgoing_for(e.link[2]))
              /\ InList(<<e.link[2], e.out_dir>>, incoming_for(e.dest))

IsPrefix(a, b) == Len(a) <= Len(b) /\ a = SubSeq(b, 1, Len(a))

Repeat(x, n) == [k \in 1..n |-> x]

\* C11: Phase ordering within a tick.  In every tick all links are advanced
\* before any intersection is served, all intersections are served before
\* any arrival is generated, and all arrivals are generated before the
\* sample of the tick is taken; ticks run 0 .. TOTAL_TICKS-1 in order and
\* exactly one sample is taken per tick.
WholeTick ==
    Repeat("advance", Len(links)) \o Repeat("serve", Len(nodes))
       \o Repeat("arrive", Len(links)) \o <<"sample">>

InLoop == pc \in {"advance", "serve", "arrive", "sample"}

PhaseOrderInv ==
    /\ IsPrefix(tick_log, WholeTick)
    /\ (InLoop /\ idx = 1 /\ pc = "advance" /\ t > 0) => tick_log = WholeTick
    /\ (pc \in {"report", "done", "failed"} /\ total_ticks > 0) => tick_log = WholeTick
    /\ run >= 1 => queue_samples = t
    /\ InLoop => t < total_ticks
    /\ (run >= 1 /\ ~InLoop) => t = total_ticks

TickOrderStep ==
    /\ t' # t => \/ pc = "sample" /\ t' = t + 1 /\ queue_samples' = queue_samples + 1
                 \/ run' = run + 1 /\ t' = 0
    /\ queue_samples' # queue_samples =>
          (pc = "sample" /\ t' = t + 1) \/ (run' = run + 1 /\ queue_samples' = 0)

C11_PhaseOrdering == []PhaseOrderInv /\ [][TickOrderStep]_vars

\* The last tick of a full-length call has just been sampled
C11_Witness ==
    /\ pc = "report"
    /\ total_ticks = TOTAL_TICKS
    /\ t = TOTAL_TICKS
    /\ queue_samples = TOTAL_TICKS
    /\ tick_log = WholeTick

\* C12: Arrival drop policy.  When an arrival is drawn for a
\* boundary-incoming link whose in-transit buffer already holds
\* LINK_IN_TRANSIT_CAP entries, the new car is discarded: no buffer and no
\* queue of any link changes, and no existing car is displaced.
ArrivalDrawn == pc = "arrive" /\ car_id' = car_id + 1

ArrivalDropStep ==
    (ArrivalDrawn /\ Len(in_transit[links[idx]]) = LINK_IN_TRANSIT_CAP) =>
        /\ in_transit' = in_transit
        /\ stopped' = stopped
        /\ next_uid' = next_uid + 1
        /\ next_uid \notin {c.uid : c \in SystemCars}'
        /\ completed' = completed

C12_ArrivalDrop == [][ArrivalDropStep]_vars

\* The car constructed last is nowhere in the system, and the link whose
\* arrival was just handled is a full boundary-incoming link
C12_Witness ==
    /\ pc = "arrive" /\ idx > 1
    /\ next_uid > 0
    /\ (next_uid - 1) \notin SystemUids
    /\ dropped > 0
    /\ is_boundary_incoming_link(links[idx - 1][1], links[idx - 1][2])
    /\ Len(in_transit[links[idx - 1]]) = LINK_IN_TRANSIT_CAP
    /\ \A k \in 1..Len(in_transit[links[idx - 1]]) :
          put_at[in_transit[links[idx - 1]][k].car.uid] # [run |-> run, t |-> t]

\* C13: Cars are created only at boundary-incoming links.  Every car first
\* appears at the end of the in-transit buffer of a link that points inward
\* from an edge of the grid, with entry tick = the current tick and
\* remaining time BASE_TRAVEL_T; no other step constructs a car; and a link
\* that is not boundary-incoming gains cars only when its source
\* intersection is served.
EdgeInward(l) ==
    LET u == l[1]
        v == l[2]
    IN  \/ u[1] = 0 /\ v = <<1, u[2]>>
        \/ u[1] = N - 1 /\ v = <<N - 2, u[2]>>
        \/ u[2] = 0 /\ v = <<u[1], 1>>
        \/ u[2] = N - 1 /\ v = <<u[1], N - 2>>

Gained(l) == UidSet(BufUids(in_transit'[l])) \ UidSet(BufUids(in_transit[l]))

CreationStep ==
    /\ (SystemUids' \ SystemUids) # {} =>
          /\ pc = "arrive"
          /\ EdgeInward(links[idx])
          /\ SystemUids' \ SystemUids = {next_uid}
          /\ in_transit'[links[idx]] =
                Append(in_transit[links[idx]],
                       [car |-> [id |-> car_id, t_enter |-> t, uid |-> next_uid],
                        remaining |-> BASE_TRAVEL_T])
    /\ next_uid' # next_uid => pc = "arrive" /\ EdgeInward(links[idx])
    /\ \A l \in LinkSet :
          (~EdgeInward(l) /\ Gained(l) # {}) =>
              /\ pc = "serve"
              /\ nodes[idx] = l[1]
              /\ \A u \in Gained(l) :
                    \E l2 \in LinkSet : /\ l2[2] = l[1]
                                        /\ Len(stopped[l2]) > 0
                                        /\ Head(stopped[l2]).uid = u

C13_CreationAtBoundary == [][CreationStep]_vars

\* A car has just been created on a boundary-incoming link while a link
\* that is not boundary-incoming carries cars
C13_Witness ==
    /\ pc = "arrive" /\ idx > 1
    /\ LET l == links[idx - 1]
           b == in_transit[l]
       IN  /\ EdgeInward(l)
           /\ Len(b) > 0
           /\ b[Len(b)].car.uid = next_uid - 1
           /\ b[Len(b)].car.t_enter = t
           /\ b[Len(b)].remaining = BASE_TRAVEL_T
    /\ \E l \in LinkSet : ~EdgeInward(l) /\ Len(in_transit[l]) > 0

\* C14: Grid exit.  When the head car of a served approach draws a direction
\* in which the intersection has no neighbour, the car leaves the stop-line
\* queue, the completed count grows by exactly 1 and the travel-time sum by
\* (current tick - entry tick) for each such car; the exit is never blocked
\* and the car is on no link afterwards.
Neighbour(node, d) ==
    IF d = NORTH THEN <<node[1] - 1, node[2]>>
    ELSE IF d = SOUTH THEN <<node[1] + 1, node[2]>>
    ELSE IF d = WEST THEN <<node[1], node[2] - 1>>
    ELSE <<node[1], node[2] + 1>>

LeavesGrid(node, d) == ~InGrid(Neighbour(node, d))

ExitsOf(log, node) ==
    {k \in 1..Len(log) : LeavesGrid(node, log[k].out_dir)}

RECURSIVE SumTravel(_, _, _)
SumTravel(log, ks, now) ==
    IF ks = {} THEN 0
    ELSE LET k == CHOOSE x \in ks : TRUE
         IN  (now - log[k].car.t_enter) + SumTravel(log, ks \ {k}, now)

GridExitStep ==
    pc = "serve" =>
        LET log == serve_log'
            node == nodes[idx]
            exits == ExitsOf(log, node)
        IN  /\ \A k \in exits :
                  /\ log[k].kind = "exit"
                  /\ Len(stopped[log[k].link]) > 0
                  /\ Head(stopped[log[k].link]) = log[k].car
                  /\ log[k].car.uid \notin UidSet(Uids(stopped'[log[k].link]))
                  /\ log[k].car.uid \notin SystemUids'
              /\ completed' = completed + Cardinality(exits)
              /\ sum_tt' = sum_tt + SumTravel(log, exits, t)
              /\ SumLen(in_transit', 1) + SumLen(stopped', 1) + Cardinality(exits)
                    = SumLen(in_transit, 1) + SumLen(stopped, 1)

C14_GridExit == [][GridExitStep]_vars

\* A car has just left the grid, after a trip of more than zero ticks,
\* while a link out of its intersection was full
C14_Witness ==
    /\ JustServed
    /\ \E k \in 1..Len(serve_log) :
          /\ serve_log[k].kind = "exit"
          /\ t - serve_log[k].car.t_enter > 0
          /\ serve_log[k].car.uid \notin SystemUids
          /\ \E l \in LinkSet :
                /\ l[1] = serve_log[k].link[2]
                /\ Len(in_transit[l]) = LINK_IN_TRANSIT_CAP

\* C15: Metric computation never faults on an empty denominator.  A run in
\* which no trip completes reports mean travel time 0, a run in which no
\* occupancy sample was taken (TOTAL_TICKS = 0) reports mean vehicles in
\* system 0, and in both cases the run ends normally rather than with a
\* division by zero.
C15_MetricsNeverFault ==
    /\ pc # "failed"
    /\ (pc = "done" /\ completed = 0) => results[Len(results)].mean_tt = Zero
    /\ (pc = "done" /\ queue_samples = 0) => results[Len(results)].mean_queued = Zero

\* The part that holds: with at least one tick configured the report never
\* faults, and a call without completions reports mean travel time 0
C15_GuardedMeans ==
    /\ (pc = "failed") => total_ticks = 0
    /\ (pc = "done" /\ completed = 0) => results[Len(results)].mean_tt = Zero

C15_Witness == pc = "done" /\ completed = 0 /\ total_ticks > 0 /\ queue_samples > 0

\* C16: Turn mapping.  For every approach direction d and every drawn value
\* r in [0,1), turn_direction returns the direction one step
\* counter-clockwise of d in the order (North, East, South, West) when
\* r < 0.25, d itself when 0.25 <= r < 0.75, and the direction one step
\* clockwise of d when r >= 0.75; the direction opposite to d is never
\* returned.  r is the 32-bit seed over 2^32, so r < 1/4 iff 4 * hi < 2^16
\* and r < 3/4 iff 4 * hi < 3 * 2^16.
CounterClockwiseOf == [d \in Dirs |->
    IF d = NORTH THEN WEST ELSE IF d = WEST THEN SOUTH
    ELSE IF d = SOUTH THEN EAST ELSE NORTH]
ClockwiseOf == [d \in Dirs |->
    IF d = NORTH THEN EAST ELSE IF d = EAST THEN SOUTH
    ELSE IF d = SOUTH THEN WEST ELSE NORTH]
OppositeOf == [d \in Dirs |->
    IF d = NORTH THEN SOUTH ELSE IF d = SOUTH THEN NORTH
    ELSE IF d = EAST THEN WEST ELSE EAST]

ExpectedTurn(d, r) ==
    IF 4 * r.hi < HALF THEN CounterClockwiseOf[d]
    ELSE IF 4 * r.hi < 3 * HALF THEN d
    ELSE ClockwiseOf[d]

\* Every drawn value, by its upper half; the lower half decides nothing but
\* both of its extremes are tried
DrawnValues == {[hi |-> h, lo |-> l] : h \in 0..(HALF - 1), l \in {0, HALF - 1}}

C16_TurnMapping ==
    /\ pc = "loaded" =>
          \A d \in Dirs : \A r \in DrawnValues :
              /\ TurnedDir(d, TurnFor(r)) = ExpectedTurn(d, r)
              /\ TurnedDir(d, TurnFor(r)) # OppositeOf[d]
    /\ \A d \in Dirs :
          LET td == turn_direction(seed_value, d)
          IN  /\ td.seed = NextSeed(seed_value)
              /\ td.new_dir = ExpectedTurn(d, td.seed)
              /\ td.new_dir # OppositeOf[d]

\* A car heading north has just drawn a left turn, which wraps around the
\* order (North, East, South, West) to West
C16_Witness ==
    /\ JustServed
    /\ \E k \in 1..Len(serve_log) :
          LET l == serve_log[k].link
          IN  /\ \E e \in ListSet(incoming_for(l[2])) : e[1] = l[1] /\ e[2] = NORTH
              /\ serve_log[k].out_dir = WEST

\* C17: Service gating.  During tick t a stop-line queue loses cars only if
\* the direction of travel of its link is green at t; a queue on a red
\* approach is unchanged by intersection service, and a queue on a green
\* approach loses at most FLOW_PER_TICK cars in that tick (its intersection
\* is served once per tick, and that service takes at most FLOW_PER_TICK
\* cars from the head).
HeadingOf(l) == CHOOSE d \in Dirs : Neighbour(l[1], d) = l[2]

GreenAt(tick, l) ==
    IF tick % (CYCLE_NS_GREEN + CYCLE_EW_GREEN) < CYCLE_NS_GREEN
    THEN HeadingOf(l) \in {NORTH, SOUTH}
    ELSE HeadingOf(l) \in {EAST, WEST}

ServiceGatingStep ==
    \A l \in LinkSet :
        /\ stopped'[l] # stopped[l] /\ Len(stopped'[l]) <= Len(stopped[l]) =>
              /\ pc = "serve"
              /\ nodes[idx] = l[2]
              /\ \A k \in 1..Len(nodes) : nodes[k] = l[2] => k = idx
              /\ GreenAt(t, l)
              /\ Len(stopped[l]) - Len(stopped'[l]) \in 1..FLOW_PER_TICK
              /\ stopped'[l] = SubSeq(stopped[l],
                                      Len(stopped[l]) - Len(stopped'[l]) + 1,
                                      Len(stopped[l]))
        /\ (pc = "serve" /\ ~GreenAt(t, l)) => stopped'[l] = stopped[l]

C17_ServiceGating == [][ServiceGatingStep]_vars

\* The intersection just served has a red approach whose queue is waiting
\* and a green approach that has just lost a car out of several
C17_Witness ==
    /\ JustServed
    /\ \E k \in 1..Len(serve_log) : serve_log[k].kind # "blocked"
    /\ \E l \in LinkSet :
          /\ Len(serve_log) > 0
          /\ l[2] = serve_log[1].link[2]
          /\ ~GreenAt(t, l)
          /\ Len(stopped[l]) > 0
    /\ \E k \in 1..Len(serve_log) :
          /\ serve_log[k].kind # "blocked"
          /\ GreenAt(t, serve_log[k].link)
          /\ Len(stopped[serve_log[k].link]) > 0

\* C18: Frame of intersection service.  serve_intersection(t, node) changes
\* only the stop-line queues of links whose destination is node and the
\* in-transit buffers of links whose source is node (plus the completed
\* count, the travel-time sum and the seed); every in-transit buffer of a
\* link into node, every stop-line queue of a link out of node and every
\* collection of a link not touching node is unchanged, so the services of
\* two distinct intersections write disjoint collections.
WriteSet(node) ==
    {<<"stopped", l>> : l \in {x \in LinkSet : x[2] = node}}
      \cup {<<"in_transit", l>> : l \in {x \in LinkSet : x[1] = node}}

Written ==
    {<<"stopped", l>> : l \in {x \in LinkSet : stopped'[x] # stopped[x]}}
      \cup {<<"in_transit", l>> : l \in {x \in LinkSet : in_transit'[x] # in_transit[x]}}

ServiceFrameStep ==
    pc = "serve" =>
        /\ Written \subseteq WriteSet(nodes[idx])
        /\ \A l \in LinkSet : l[2] # nodes[idx] => stopped'[l] = stopped[l]
        /\ \A l \in LinkSet : l[1] # nodes[idx] => in_transit'[l] = in_transit[l]
        /\ \A n \in NodeSet \ {nodes[idx]} : Written \cap WriteSet(n) = {}
        /\ UNCHANGED <<car_id, queue_samples, sum_queue, t, run, results, total_ticks>>

C18_ServiceFrame == [][ServiceFrameStep]_vars

\* The service just made took a car from a queue into the intersection and
\* put it on a link out of it, while a link into the intersection carries
\* cars in transit and a link out of it has cars queued
C18_Witness ==
    /\ JustServed
    /\ \E k \in 1..Len(serve_log) :
          LET e == serve_log[k]
          IN  /\ e.kind = "move"
              /\ e.car.uid \in UidSet(BufUids(in_transit[<<e.link[2], e.dest>>]))
              /\ \E l \in LinkSet : l[2] = e.link[2] /\ Len(in_transit[l]) > 0
              /\ \E l \in LinkSet : l[1] = e.link[2] /\ Len(stopped[l]) > 0

\* C19: Minimum travel time.  In a run that starts with all in-transit
\* buffers and stop-line queues empty, every completed trip has
\* exit tick - entry tick >= BASE_TRAVEL_T, so at every tick the travel-time
\* sum is at least BASE_TRAVEL_T times the completed count and is never
\* negative.
C19_MinimumTravelTime ==
    (fresh /\ run >= 1) =>
        /\ sum_tt >= BASE_TRAVEL_T * completed
        /\ sum_tt >= 0
        /\ JustServed =>
              \A k \in 1..Len(serve_log) :
                  serve_log[k].kind = "exit" =>
                      t - serve_log[k].car.t_enter >= BASE_TRAVEL_T

\* In a run that started empty a car has just left the grid exactly
\* BASE_TRAVEL_T ticks after it entered
C19_Witness ==
    /\ fresh /\ run >= 1 /\ JustServed /\ completed > 0
    /\ \E k \in 1..Len(serve_log) :
          /\ serve_log[k].kind = "exit"
          /\ t - serve_log[k].car.t_enter = BASE_TRAVEL_T

\* C20: One hop per tick.  Within a single tick a car crosses at most one
\* intersection: a car moved onto a link by intersection service or spawned
\* by an arrival in tick t has remaining time BASE_TRAVEL_T >= 1 at the end
\* of tick t, does not enter that link's stop-line queue before tick
\* t + BASE_TRAVEL_T, and is never attempted by a service in the tick in
\* which it was served or spawned.  put_at records the call and the tick in
\* which each car was last put on a link.
PutThisTick(uid) == put_at[uid] = [run |-> run, t |-> t]

OneHopInv ==
    /\ BASE_TRAVEL_T >= 1
    /\ \A l \in LinkSet :
          /\ \A k \in 1..Len(in_transit[l]) :
                LET e == in_transit[l][k]
                IN  /\ (PutThisTick(e.car.uid) /\ pc \in {"serve", "arrive", "sample"}) =>
                          e.remaining = BASE_TRAVEL_T
                    /\ put_at[e.car.uid].run = run =>
                          e.remaining >= BASE_TRAVEL_T - (t - put_at[e.car.uid].t)
          /\ \A k \in 1..Len(stopped[l]) :
                put_at[stopped[l][k].uid].run = run =>
                    t >= put_at[stopped[l][k].uid].t + BASE_TRAVEL_T

OneHopStep ==
    pc = "serve" =>
        \A k \in 1..Len(serve_log') :
            /\ ~PutThisTick(serve_log'[k].car.uid)
            /\ put_at[serve_log'[k].car.uid].run = run =>
                  t >= put_at[serve_log'[k].car.uid].t + BASE_TRAVEL_T

C20_OneHopPerTick == []OneHopInv /\ [][OneHopStep]_vars

\* A car on its second link or later has just been moved on by a service,
\* with the full travel time ahead of it, and another car stands in a queue
\* that it entered in this tick, BASE_TRAVEL_T ticks after it was put on the
\* link
C20_Witness ==
    /\ JustServed
    /\ \E k \in 1..Len(serve_log) :
          LET e == serve_log[k]
              b == in_transit[<<e.link[2], e.dest>>]
          IN  /\ e.kind = "move"
              /\ ~is_boundary_incoming_link(e.link[1], e.link[2])
              /\ PutThisTick(e.car.uid)
              /\ Len(b) > 0
              /\ b[Len(b)].car = e.car
              /\ b[Len(b)].remaining = BASE_TRAVEL_T
    /\ \E l \in LinkSet : \E k \in 1..Len(stopped[l]) :
          /\ put_at[stopped[l][k].uid].run = run
          /\ t = put_at[stopped[l][k].uid].t + BASE_TRAVEL_T

====
